---- MODULE Spec2Model ----
(***************************************************************************)
(* Model of src/services/adobeTargetService.js: the access-token cache     *)
(* (fetchAccessToken), the offer-reference extraction                      *)
(* (findJsonOfferReferences) and the aggregation pipeline                  *)
(* (getJsonOffersFromActivity, getTravaTelasOffers).                       *)
(*                                                                         *)
(* JSON scalars are records [t, s, n]: t is "undef" (field absent),        *)
(* "str" (s holds the characters) or "num" (n holds the number).  Strings  *)
(* are sequences of one-character strings so that toString and            *)
(* toLowerCase are computed, not assumed.                                  *)
(***************************************************************************)
EXTENDS Integers, Sequences, FiniteSets, TLC

----------------------------------------------------------------------------
(* JavaScript values and strings *)

Undef == [t |-> "undef", s |-> <<>>, n |-> 0]
Str(chars) == [t |-> "str", s |-> chars, n |-> 0]
Num(k) == [t |-> "num", s |-> <<>>, n |-> k]

UpperCase == <<"A","B","C","D","E","F","G","H","I","J","K","L","M",
               "N","O","P","Q","R","S","T","U","V","W","X","Y","Z">>
LowerCase == <<"a","b","c","d","e","f","g","h","i","j","k","l","m",
               "n","o","p","q","r","s","t","u","v","w","x","y","z">>
Digits == <<"0","1","2","3","4","5","6","7","8","9">>

\* String.prototype.toLowerCase, one character
LowerChar(c) ==
  IF \E i \in 1..Len(UpperCase) : UpperCase[i] = c
  THEN LowerCase[CHOOSE i \in 1..Len(UpperCase) : UpperCase[i] = c]
  ELSE c

toLowerCase(chars) == [i \in 1..Len(chars) |-> LowerChar(chars[i])]

\* Number.prototype.toString for a natural number
RECURSIVE NatToString(_)
NatToString(k) ==
  IF k < 10 THEN <<Digits[k + 1]>>
  ELSE NatToString(k \div 10) \o <<Digits[(k % 10) + 1]>>

\* value.toString() for the scalars of the model
toString(v) ==
  CASE v.t = "str" -> v.s
    [] v.t = "num" -> NatToString(v.n)
    [] OTHER -> <<>>

\* JavaScript truthiness: undefined, "" and 0 are falsy
Truthy(v) ==
  CASE v.t = "str" -> v.s # <<>>
    [] v.t = "num" -> v.n # 0
    [] OTHER -> FALSE

\* a || b
Or(a, b) == IF Truthy(a) THEN a ELSE b

\* line 56: (value = '') => value.toString().toLowerCase()
normalizeString(value) ==
  IF value.t = "undef" THEN <<>> ELSE toLowerCase(toString(value))

sJson == <<"j","s","o","n">>
sHtml == <<"h","t","m","l">>

----------------------------------------------------------------------------
(* State *)

VARIABLES
  \* fetchAccessToken
  cachedToken,   \* line 15: the process-wide cached token, or NoToken
  now,           \* Date.now(), in milliseconds
  callers,       \* per caller of fetchAccessToken: its position and results
  issued,        \* number of token exchanges the endpoint has answered
  lastExchange,  \* access_token of the exchange that completed last, 0 if none
  \* findJsonOfferReferences
  heap,          \* the payload: address -> composite node
  excluded,      \* the activityId argument
  visited,       \* line 59
  references,    \* line 60: the Map, as a sequence in insertion order
  stack,         \* the call stack of search: frames [node, i]
  spc,           \* "idle" | "run" | "done"
  entered,       \* address -> number of times search ran past its guard on it
  \* getTravaTelasOffers
  apc,           \* "idle" | "listing" | "running" | "resolved" | "rejected"
  listing,       \* data.activities of the getActivities response
  approved,      \* line 245: approvedActivities
  pipes,         \* per approved activity: its getJsonOffersFromActivity call
  doneOrder,     \* indexes of the pipelines, in the order they resolved
  offerRequests, \* the getOfferDetails requests issued so far
  result,        \* what getTravaTelasOffers resolved with
  error          \* what getTravaTelasOffers rejected with

tokenVars == <<cachedToken, now, callers, issued, lastExchange>>
searchVars == <<heap, excluded, visited, references, stack, spc, entered>>
aggVars == <<apc, listing, approved, pipes, doneOrder, offerRequests, result, error>>
vars == <<tokenVars, searchVars, aggVars>>

----------------------------------------------------------------------------
(* findJsonOfferReferences, lines 58-104 *)

MaxGraphNodes == 2
MaxTreeNodes == 2

Null == 0   \* a falsy or scalar child value: search returns at once on it

\* line 80
OfferIdOf(node) == Or(node.offerId, node.id)

\* line 82
OfferTypeOf(node) ==
  LET t == normalizeString(Or(node.offerType, node.type))
  IN  IF t # <<>> THEN t ELSE sJson

\* line 84
IsActivityId(node, activityId) ==
  LET normalizedOfferId == normalizeString(OfferIdOf(node))
  IN  normalizedOfferId # <<>> /\ normalizedOfferId = normalizeString(activityId)

\* references.get(key): the index of the entry, 0 when absent
MapIndex(refs, key) ==
  IF \E i \in 1..Len(refs) : refs[i].id = key
  THEN CHOOSE i \in 1..Len(refs) : refs[i].id = key
  ELSE 0

\* references.set(key, rec): in place when the key exists, else appended
MapSet(refs, key, rec) ==
  LET i == MapIndex(refs, key)
  IN  IF i = 0 THEN Append(refs, rec) ELSE [refs EXCEPT ![i] = rec]

\* line 89: whether a new record replaces what the Map holds
ShouldSetAlways(refs, offerId, offerType) == TRUE

ShouldSet(refs, offerId, offerType) ==
  LET i == MapIndex(refs, offerId)
  IN  i = 0 \/ (refs[i].type # sJson /\ offerType = sJson)

\* line 86 : whether the node is recorded as a reference
IsReferenceNoExclusion(node, activityId) == Truthy(OfferIdOf(node))

IsReference(node, activityId) ==
  Truthy(OfferIdOf(node)) /\ ~IsActivityId(node, activityId)

\* lines 79-92: the Map after an object node has been examined
Record(refs, node, activityId) ==
  LET offerId == OfferIdOf(node)
      offerType == OfferTypeOf(node)
  IN  IF IsReference(node, activityId) /\ ShouldSet(refs, offerId, offerType)
      THEN MapSet(refs, offerId, [id |-> offerId, type |-> offerType])
      ELSE refs

\* line 65: the guard of search
SkipNullOnly(seen, a) == a = Null

Skip(seen, a) == a = Null \/ a \in seen

\* The values search iterates over: the items of an array (line 73), the
\* composite field values of an object (line 95)
Children(h, a) == h[a].kids

\* One call search(a) up to its first nested call: the state after it
SearchCall(st, h, activityId, a) ==
  IF Skip(st.visited, a) THEN st
  ELSE [visited |-> st.visited \cup {a},
        references |-> IF h[a].kind = "object"
                       THEN Record(st.references, h[a], activityId)
                       ELSE st.references,
        stack |-> Append(st.stack, [node |-> a, i |-> 1])]

\* One step of the running search: the top frame makes its next nested call,
\* or returns when its loop is over
SearchStep(st, h, activityId) ==
  LET d == Len(st.stack)
      f == st.stack[d]
  IN  IF f.i > Len(Children(h, f.node))
      THEN [st EXCEPT !.stack = SubSeq(st.stack, 1, d - 1)]
      ELSE SearchCall([st EXCEPT !.stack[d].i = f.i + 1], h, activityId,
                      Children(h, f.node)[f.i])

EmptySearch == [visited |-> {}, references |-> <<>>, stack |-> <<>>]

RECURSIVE SearchRun(_, _, _)
SearchRun(st, h, activityId) ==
  IF st.stack = <<>> THEN st.references
  ELSE SearchRun(SearchStep(st, h, activityId), h, activityId)

\* lines 58-104, as a function: payload h with root address 1
findJsonOfferReferences(h, activityId) ==
  SearchRun(SearchCall(EmptySearch, h, activityId, 1), h, activityId)

----------------------------------------------------------------------------
(* Payloads handed to findJsonOfferReferences *)

sO1 == <<"o","1">>
sA1Upper == <<"A","1">>
sA1 == <<"a","1">>
sOne == <<"1">>

Node(kind, offerId, id, offerType, type, kids) ==
  [kind |-> kind, offerId |-> offerId, id |-> id,
   offerType |-> offerType, type |-> type, kids |-> kids]

ArrayNode(kids) == Node("array", Undef, Undef, Undef, Undef, kids)

\* Sequences over S of length at most 2
UpTo2(S) == {<<>>} \cup {<<a>> : a \in S} \cup {<<a, b>> : a \in S, b \in S}

\* Graph payloads: every shape over the addresses, cycles and shared nodes
\* included.  The root is an array or an object; objects at odd addresses
\* name offer o1 with offerType "html", objects at even addresses name it
\* through id with no type
GraphObject(a, kids) ==
  IF a % 2 = 1
  THEN Node("object", Str(sO1), Undef, Str(sHtml), Undef, kids)
  ELSE Node("object", Undef, Str(sO1), Undef, Undef, kids)

GraphPayloads ==
  {[a \in 1..MaxGraphNodes |->
      IF a = 1 /\ rootIsArray THEN ArrayNode(k[a]) ELSE GraphObject(a, k[a])] :
     k \in [1..MaxGraphNodes -> UpTo2(1..MaxGraphNodes)],
     rootIsArray \in BOOLEAN}

\* Tree payloads: node a > 1 is a field value of an earlier node; every object
\* also has scalar fields (Null); the id and type fields range over all
\* combinations
TreeAttrs ==
  [offerId : {Undef, Str(sO1)},
   id : {Undef, Str(sA1Upper), Num(1)},
   offerType : {Undef, Str(sHtml)},
   type : {Undef, Str(<<"J","S","O","N">>)}]

TreeParents == [2..MaxTreeNodes -> 1..MaxTreeNodes]

RECURSIVE KidsOf(_, _, _)
\* the children of node a under parent map p, in address order, from address b on
KidsOf(p, a, b) ==
  IF b > MaxTreeNodes THEN <<>>
  ELSE (IF p[b] = a THEN <<b>> ELSE <<>>) \o KidsOf(p, a, b + 1)

TreePayload(p, at) ==
  [a \in 1..MaxTreeNodes |->
     Node("object", at[a].offerId, at[a].id, at[a].offerType, at[a].type,
          <<Null>> \o KidsOf(p, a, 2))]

TreePayloads ==
  {TreePayload(p, at) :
     p \in {q \in TreeParents : \A b \in 2..MaxTreeNodes : q[b] < b},
     at \in [1..MaxTreeNodes -> TreeAttrs]}

ExcludedIds == {Str(sA1), Str(sOne)}

----------------------------------------------------------------------------
(* fetchAccessToken, lines 15-54 *)

MaxCallers == 2
MaxExchanges == 3
MaxTicks == 3

Callers == 1..MaxCallers

\* Date.now() when the model starts, in milliseconds; it advances by seconds
StartMs == 1000 * 1000

\* data.expires_in of a token response, in seconds: the stored expiry is one
\* second back, one second ahead or two seconds ahead of the clock
ExpiresIn == {59, 61, 62}

\* Whether a token is there and expires strictly after time t
Fresh(token, t) == token.set /\ token.expiresAt > t

\* line 15: let cachedToken; (undefined)
NoToken == [value |-> 0, expiresAt |-> 0, set |-> FALSE]

\* line 23, the comparison left out
isTokenValidNoExpiry(token) == token.set /\ token.expiresAt # 0

\* line 23: token && token.expiresAt && token.expiresAt > Date.now()
isTokenValid(token) ==
  token.set /\ token.expiresAt # 0 /\ token.expiresAt > now

\* lines 44-47, keeping a token another caller stored meanwhile
StoreTokenUnlessValid(accessToken, expiresIn) ==
  IF isTokenValid(cachedToken) THEN cachedToken
  ELSE [value |-> accessToken,
        expiresAt |-> now + (expiresIn - 60) * 1000,
        set |-> TRUE]

\* lines 44-47: the token stored after a successful exchange
StoreToken(accessToken, expiresIn) ==
  [value |-> accessToken,
   expiresAt |-> now + (expiresIn - 60) * 1000,
   set |-> TRUE]

\* A caller that is not inside fetchAccessToken
Resting ==
  [pc |-> "idle", via |-> "none", ret |-> 0, mine |-> 0,
   seenSet |-> FALSE, seenFresh |-> FALSE, overlap |-> FALSE]

TokenIdle ==
  /\ cachedToken = NoToken
  /\ now = StartMs
  /\ callers = [c \in Callers |-> Resting]
  /\ issued = 0
  /\ lastExchange = 0

\* Date.now() moves on
Tick ==
  /\ now + 1000 <= StartMs + MaxTicks * 1000
  /\ now' = now + 1000
  /\ UNCHANGED <<cachedToken, callers, issued, lastExchange, searchVars, aggVars>>

\* lines 25-42: a call up to its return from the cache or to its await of
\* axios.post
Call(c) ==
  /\ callers[c].pc = "idle"
  /\ callers' = [callers EXCEPT ![c] =
       [pc |-> IF isTokenValid(cachedToken) THEN "returned" ELSE "awaiting",
        via |-> IF isTokenValid(cachedToken) THEN "cache" ELSE "exchange",
        ret |-> IF isTokenValid(cachedToken) THEN cachedToken.value ELSE 0,
        mine |-> 0,
        seenSet |-> cachedToken.set,
        seenFresh |-> Fresh(cachedToken, now),
        overlap |-> \E o \in Callers : callers[o].pc = "awaiting"]]
  /\ UNCHANGED <<cachedToken, now, issued, lastExchange, searchVars, aggVars>>

\* lines 38-49: the exchange answers with a new access_token; the token is
\* stored and its value returned
ExchangeOk(c) ==
  /\ callers[c].pc = "awaiting"
  /\ issued < MaxExchanges
  /\ \E expiresIn \in ExpiresIn :
       /\ cachedToken' = StoreToken(issued + 1, expiresIn)
       /\ callers' = [callers EXCEPT ![c].pc = "returned",
                                     ![c].mine = issued + 1,
                                     ![c].ret = cachedToken'.value]
  /\ issued' = issued + 1
  /\ lastExchange' = issued + 1
  /\ UNCHANGED <<now, searchVars, aggVars>>

\* lines 50-53: the exchange fails and the call throws
ExchangeFail(c) ==
  /\ callers[c].pc = "awaiting"
  /\ callers' = [callers EXCEPT ![c].pc = "failed"]
  /\ UNCHANGED <<cachedToken, now, issued, lastExchange, searchVars, aggVars>>

\* The caller has its answer and may call again
Finish(c) ==
  /\ callers[c].pc \in {"returned", "failed"}
  /\ callers' = [callers EXCEPT ![c] = Resting]
  /\ UNCHANGED <<cachedToken, now, issued, lastExchange, searchVars, aggVars>>

TokenNext ==
  \/ Tick
  \/ \E c \in Callers : Call(c)
  \/ \E c \in Callers : ExchangeOk(c)
  \/ \E c \in Callers : ExchangeFail(c)
  \/ \E c \in Callers : Finish(c)

----------------------------------------------------------------------------
(* getActivityDetails, getOfferDetails, getJsonOffersFromActivity and
   getTravaTelasOffers, lines 126-274 *)

MaxActivities == 2

\* line 13, as words: '[APP] travaTelasHomeProd'
TRAVA_TELAS_IDENTIFIER == <<"[APP]", " ", "travaTelasHomeProd">>

\* String.prototype.includes
includes(chars, needle) ==
  \E k \in 0..(Len(chars) - Len(needle)) :
    \A i \in 1..Len(needle) : chars[k + i] = needle[i]

sApproved == <<"a","p","p","r","o","v","e","d">>
sAb == <<"a","b">>
sXt == <<"x","t">>

\* The activities a listing may hold at position k: its id is a<k>
ActivityId(k) == Str(<<"a", Digits[k + 1]>>)

ActivityShapes ==
  {[name |-> TRAVA_TELAS_IDENTIFIER \o <<" ", "X">>, state |-> Str(sApproved), type |-> Str(sAb)],
   [name |-> <<"x", " ">> \o TRAVA_TELAS_IDENTIFIER, state |-> Str(<<"A","p","p","r","o","v","e","d">>), type |-> Str(<<"X","T">>)],
   [name |-> <<"[APP]", " ", "other">>, state |-> Str(sApproved), type |-> Str(sAb)],
   [name |-> TRAVA_TELAS_IDENTIFIER, state |-> Str(<<"s","a","v","e","d">>), type |-> Str(sAb)],
   [name |-> TRAVA_TELAS_IDENTIFIER, state |-> Str(sApproved), type |-> Str(<<"b","a","n","n","e","r">>)]}

Listings ==
  UNION {{[k \in 1..n |-> [id |-> ActivityId(k), name |-> sh[k].name,
                           state |-> sh[k].state, type |-> sh[k].type]] :
            sh \in [1..n -> ActivityShapes]} : n \in 0..MaxActivities}

\* The bodies of offers on the server
sO2 == <<"o","2">>
OfferBody(offerId) ==
  IF offerId = Str(sO1) THEN [html |-> "<div/>"] ELSE [html |-> "<p/>"]

\* The details payloads the server may answer with for activity `own`:
\* a lifetime object and a graph of nodes rooted at address 1
Leaf(offerId, id, offerType, type) == Node("object", offerId, id, offerType, type, <<Null>>)

Upper(v) == Str([i \in 1..Len(v.s) |->
                   IF \E j \in 1..26 : LowerCase[j] = v.s[i]
                   THEN UpperCase[CHOOSE j \in 1..26 : LowerCase[j] = v.s[i]]
                   ELSE v.s[i]])

DetailHeaps(own, type) ==
  LET root(kids) == Node("object", Undef, own, Undef, type, kids)
  IN  {\* an options array with one json offer
       <<root(<<Null, 2>>), ArrayNode(<<3>>),
         Leaf(Str(sO1), Undef, Str(sJson), Undef)>>,
       \* o1 as html, o2 with no type, o1 again as JSON, and a node that names
       \* the activity in upper case
       <<root(<<Null, 2>>), ArrayNode(<<3, 4, 5, 6>>),
         Leaf(Str(sO1), Undef, Str(sHtml), Undef),
         Leaf(Str(sO2), Undef, Undef, Undef),
         Leaf(Undef, Str(sO1), Undef, Str(<<"J","S","O","N">>)),
         Leaf(Undef, Upper(own), Undef, Undef)>>,
       \* only nodes that name the activity, one in upper case
       <<root(<<Null, 2>>), ArrayNode(<<3>>),
         Leaf(Undef, Upper(own), Undef, Undef)>>}

Lifetimes ==
  {[end |-> Undef, endDate |-> Undef],
   [end |-> Str(<<"2","0","2","4">>), endDate |-> Undef],
   [end |-> Undef, endDate |-> Num(2025)]}

DetailPayloads(own, type) ==
  [lifetime : Lifetimes, heap : DetailHeaps(own, type)]

NoDetails == [lifetime |-> [end |-> Undef, endDate |-> Undef], heap |-> <<>>]

\* lines 200-202 and 256-258, reading lifetime.end only
HasLifetimeEndOnly(details) == Truthy(details.lifetime.end)

\* lines 200-202 and 256-258
HasLifetimeEnd(details) ==
  Truthy(details.lifetime.end) \/ Truthy(details.lifetime.endDate)

\* lines 127-134: the checks of getActivityDetails before any request
ValidationFails(activity) ==
  \/ ~Truthy(activity.id)
  \/ normalizeString(activity.type) \notin {sAb, sXt}

\* line 241-243
MatchingActivities(activities) ==
  SelectSeq(activities, LAMBDA a : includes(a.name, TRAVA_TELAS_IDENTIFIER))

\* lines 245-247
ApprovedActivities(activities) ==
  SelectSeq(MatchingActivities(activities),
            LAMBDA a : normalizeString(a.state) = sApproved)

\* line 210, never true
NoReferencesNever(offerReferences) == FALSE

\* line 210: !offerReferences.length
NoReferences(offerReferences) == Len(offerReferences) = 0

Pending == [html |-> "pending"]

\* Promise.all resolving in the order the promises completed
PromiseAllByCompletion(values, order) == [k \in 1..Len(order) |-> values[order[k]]]

\* lines 222 and 249: Promise.all resolves with the values in the order of
\* the promises it was given, whatever the order they completed in
PromiseAll(values, order) == [k \in 1..Len(values) |-> values[k]]

\* lines 226-235: the value getJsonOffersFromActivity resolves with
ActivityOffers(activity, offerReferences, offers) ==
  [index \in 1..Len(offers) |->
     [activityId |-> activity.id,
      activityType |-> normalizeString(activity.type),
      offerId |-> offerReferences[index].id,
      offerType |-> offerReferences[index].type,
      offer |-> offers[index]]]

\* lines 263-269, passing the whole inner element on as the offer
AggregatedWhole(activity, offerPayload) ==
  [activityId |-> activity.id,
   activityName |-> activity.name,
   activityType |-> normalizeString(activity.type),
   status |-> activity.state,
   offer |-> offerPayload]

\* lines 263-269: one element of the list getTravaTelasOffers returns
Aggregated(activity, offerPayload) ==
  [activityId |-> activity.id,
   activityName |-> activity.name,
   activityType |-> normalizeString(activity.type),
   status |-> activity.state,
   offer |-> offerPayload.offer]

\* lines 250-270: what the callback of approvedActivities.map resolves with
PerActivity(activity, pipe) ==
  IF HasLifetimeEnd(pipe.details) THEN <<>>
  ELSE [k \in 1..Len(pipe.offers) |-> Aggregated(activity, pipe.offers[k])]

RECURSIVE Flat(_)
\* line 273: offersByActivity.flat()
Flat(lists) ==
  IF lists = <<>> THEN <<>> ELSE Head(lists) \o Flat(Tail(lists))

NoError == [kind |-> "none", activity |-> Undef]

\* line 249, a Promise.all that never rejects: failed pipelines are left out
RejectsNever(ps) == FALSE

\* line 249: Promise.all rejects as soon as one of its promises rejects
Rejects(ps) == \E i \in 1..Len(ps) : ps[i].pc = "failed"

AggIdle ==
  /\ apc = "idle"
  /\ listing = <<>>
  /\ approved = <<>>
  /\ pipes = <<>>
  /\ doneOrder = <<>>
  /\ offerRequests = {}
  /\ result = <<>>
  /\ error = NoError

\* The pipeline of one approved activity as it is launched (line 251 up to
\* the await inside getActivityDetails, or its rejection by lines 127-134)
Launch(activity) ==
  [pc |-> IF ValidationFails(activity) THEN "failed" ELSE "details",
   details |-> NoDetails,
   refs |-> <<>>,
   slots |-> <<>>,
   order |-> <<>>,
   offers |-> <<>>,
   err |-> IF ValidationFails(activity)
           THEN [kind |-> "ValidationError", activity |-> activity.id]
           ELSE NoError]

\* A request fails because fetchAccessToken threw (lines 111, 136, 154) or
\* because the request itself did (lines 120-123, 147-150, 165-168); either
\* way the caller sees one Error
FailureKinds == {"ApiError"}

\* The lists the callbacks of line 250 resolved with, by pipeline
ListsOf(acts, ps) ==
  [k \in 1..Len(ps) |->
     IF ps[k].pc = "done" THEN PerActivity(acts[k], ps[k]) ELSE <<>>]

\* lines 249 and 273: the state of the call once the pipelines are ps and
\* have resolved in the order dOrder; `first` is the pipeline that has just
\* rejected.  A settled promise stays as it is.
Outcome(pending, acts, ps, dOrder, first) ==
  IF ~pending
  THEN [apc |-> apc, result |-> result, error |-> error]
  ELSE IF Rejects(ps)
  THEN [apc |-> "rejected", result |-> <<>>, error |-> ps[first].err]
  ELSE IF \A k \in 1..Len(ps) : ps[k].pc \in {"done", "failed"}
  THEN [apc |-> "resolved", result |-> Flat(PromiseAll(ListsOf(acts, ps), dOrder)),
        error |-> NoError]
  ELSE [apc |-> "running", result |-> <<>>, error |-> NoError]

Advance(pending, acts, ps, dOrder, first) ==
  /\ pipes' = ps
  /\ doneOrder' = dOrder
  /\ \E o \in {Outcome(pending, acts, ps, dOrder, first)} :
       /\ apc' = o.apc
       /\ result' = o.result
       /\ error' = o.error

\* line 239: getTravaTelasOffers is called and awaits getActivities
AggCall ==
  /\ apc = "idle"
  /\ apc' = "listing"
  /\ UNCHANGED <<listing, approved, pipes, doneOrder, offerRequests, result, error,
                 tokenVars, searchVars>>

\* lines 239-251: the listing arrives; it is filtered and one pipeline is
\* launched per approved activity
ListOk ==
  /\ apc = "listing"
  /\ \E activities \in Listings :
       /\ listing' = activities
       /\ approved' = ApprovedActivities(activities)
       /\ \E ps \in {[k \in 1..Len(ApprovedActivities(activities)) |->
                        Launch(ApprovedActivities(activities)[k])]} :
            Advance(TRUE, ApprovedActivities(activities), ps, <<>>,
                    IF \E k \in 1..Len(ps) : ps[k].pc = "failed"
                    THEN CHOOSE k \in 1..Len(ps) :
                           /\ ps[k].pc = "failed"
                           /\ \A j \in 1..(k - 1) : ps[j].pc # "failed"
                    ELSE 0)
  /\ UNCHANGED <<offerRequests, tokenVars, searchVars>>

\* getActivities throws (lines 111, 120-123) and so does the call
ListFail ==
  /\ apc = "listing"
  /\ \E kind \in FailureKinds :
       /\ apc' = "rejected"
       /\ error' = [kind |-> kind, activity |-> Undef]
  /\ UNCHANGED <<listing, approved, pipes, doneOrder, offerRequests, result,
                 tokenVars, searchVars>>

\* lines 199-224: the details of activity i arrive
DetailsOk(i) ==
  /\ pipes[i].pc = "details"
  /\ \E details \in DetailPayloads(approved[i].id, approved[i].type) :
       \E refs \in {IF HasLifetimeEnd(details) THEN <<>>
                    ELSE findJsonOfferReferences(details.heap, approved[i].id)} :
         IF HasLifetimeEnd(details)
         THEN /\ Advance(apc = "running", approved,
                         [pipes EXCEPT ![i].pc = "done", ![i].details = details],
                         Append(doneOrder, i), 0)
              /\ UNCHANGED offerRequests
         ELSE IF NoReferences(refs)
         THEN /\ Advance(apc = "running", approved,
                         [pipes EXCEPT ![i].pc = "failed", ![i].details = details,
                            ![i].err = [kind |-> "NotFoundError",
                                        activity |-> approved[i].id]],
                         doneOrder, i)
              /\ UNCHANGED offerRequests
         ELSE /\ Advance(apc = "running", approved,
                         [pipes EXCEPT ![i].pc = IF refs = <<>> THEN "done" ELSE "offers",
                                       ![i].details = details,
                                       ![i].refs = refs,
                                       ![i].slots = [k \in 1..Len(refs) |-> Pending]],
                         IF refs = <<>> THEN Append(doneOrder, i) ELSE doneOrder, 0)
              /\ offerRequests' = offerRequests \cup
                   {[activity |-> approved[i].id, offerId |-> refs[k].id,
                     offerType |-> refs[k].type] : k \in 1..Len(refs)}
  /\ UNCHANGED <<listing, approved, tokenVars, searchVars>>

\* getActivityDetails throws (lines 136, 147-150)
DetailsFail(i) ==
  /\ pipes[i].pc = "details"
  /\ \E kind \in FailureKinds :
       Advance(apc = "running", approved,
               [pipes EXCEPT ![i].pc = "failed",
                             ![i].err = [kind |-> kind, activity |-> approved[i].id]],
               doneOrder, i)
  /\ UNCHANGED <<listing, approved, offerRequests, tokenVars, searchVars>>

\* lines 222-235: the offer of reference k of activity i arrives; with the
\* last one getJsonOffersFromActivity resolves
OfferOk(i, k) ==
  /\ pipes[i].pc = "offers"
  /\ pipes[i].slots[k] = Pending
  /\ \E slots \in {[pipes[i].slots EXCEPT ![k] = OfferBody(pipes[i].refs[k].id)]},
        order \in {Append(pipes[i].order, k)} :
       IF \E j \in 1..Len(slots) : slots[j] = Pending
       THEN Advance(apc = "running", approved,
                    [pipes EXCEPT ![i].slots = slots, ![i].order = order],
                    doneOrder, 0)
       ELSE Advance(apc = "running", approved,
                    [pipes EXCEPT ![i].slots = slots, ![i].order = order,
                       ![i].pc = "done",
                       ![i].offers = ActivityOffers(approved[i], pipes[i].refs,
                                                    PromiseAll(slots, order))],
                    Append(doneOrder, i), 0)
  /\ UNCHANGED <<listing, approved, offerRequests, tokenVars, searchVars>>

\* getOfferDetails throws (lines 154, 165-168): the Promise.all of line 222
\* rejects and so does getJsonOffersFromActivity.  What the other requests of
\* the activity answer afterwards reaches no state of the program.
OfferFail(i, k) ==
  /\ pipes[i].pc = "offers"
  /\ pipes[i].slots[k] = Pending
  /\ \E kind \in FailureKinds :
       Advance(apc = "running", approved,
               [pipes EXCEPT ![i].pc = "failed",
                             ![i].err = [kind |-> kind, activity |-> approved[i].id]],
               doneOrder, i)
  /\ UNCHANGED <<listing, approved, offerRequests, tokenVars, searchVars>>

AggNext ==
  \/ AggCall
  \/ ListOk
  \/ ListFail
  \/ \E i \in 1..Len(pipes) : DetailsOk(i)
  \/ \E i \in 1..Len(pipes) : DetailsFail(i)
  \/ \E i \in 1..Len(pipes) : \E k \in 1..Len(pipes[i].slots) : OfferOk(i, k)
  \/ \E i \in 1..Len(pipes) : \E k \in 1..Len(pipes[i].slots) : OfferFail(i, k)

----------------------------------------------------------------------------
(* findJsonOfferReferences as a step machine *)

SearchState == [visited |-> visited, references |-> references, stack |-> stack]

SearchUpdate(st) ==
  /\ visited' = st.visited
  /\ references' = st.references
  /\ stack' = st.stack
  /\ entered' = IF Len(st.stack) > Len(stack)
                THEN [entered EXCEPT ![st.stack[Len(st.stack)].node] = @ + 1]
                ELSE entered

NoPayload == <<>>

SearchInit ==
  /\ heap = NoPayload
  /\ excluded = Undef
  /\ visited = {}
  /\ references = <<>>
  /\ stack = <<>>
  /\ spc = "idle"
  /\ entered = <<>>

\* lines 58-62 and 101: a call findJsonOfferReferences(payload, activityId)
\* up to the first nested call of search(payload)
SearchStartOn(payloads, activityIds) ==
  /\ spc = "idle"
  /\ \E h \in payloads, activityId \in activityIds :
       /\ heap' = h
       /\ excluded' = activityId
       /\ \E st \in {SearchCall(EmptySearch, h, activityId, 1)} :
              /\ visited' = st.visited
              /\ references' = st.references
              /\ stack' = st.stack
              /\ entered' = [a \in DOMAIN h |->
                               IF st.stack # <<>> /\ a = 1 THEN 1 ELSE 0]
  /\ spc' = "run"
  /\ UNCHANGED <<tokenVars, aggVars>>

SearchStart == SearchStartOn(GraphPayloads \cup TreePayloads, ExcludedIds)

SearchStartGraph == SearchStartOn(GraphPayloads, {Str(sA1)})

\* lines 64-99: the next nested call of the running frame, or its return
SearchAdvance ==
  /\ spc = "run"
  /\ stack # <<>>
  /\ \E st \in {SearchStep(SearchState, heap, excluded)} : SearchUpdate(st)
  /\ UNCHANGED <<heap, excluded, spc, tokenVars, aggVars>>

\* line 103: return Array.from(references.values())
SearchReturn ==
  /\ spc = "run"
  /\ stack = <<>>
  /\ spc' = "done"
  /\ UNCHANGED <<heap, excluded, visited, references, stack, entered, tokenVars, aggVars>>

InitAll == SearchInit /\ TokenIdle /\ AggIdle

SpecToken == InitAll /\ [][TokenNext]_vars

SpecAgg == InitAll /\ [][AggNext]_vars

SearchNext == SearchStart \/ SearchAdvance \/ SearchReturn

SpecSearch == InitAll /\ [][SearchNext]_vars

CycleNext == SearchStartGraph \/ SearchAdvance \/ SearchReturn

\* search is synchronous code: once called it runs on until it returns
SpecCycle ==
  InitAll /\ [][CycleNext]_vars /\ WF_vars(SearchAdvance \/ SearchReturn)

----------------------------------------------------------------------------
(* Properties of findJsonOfferReferences *)

\* The addresses reachable from the root by following field values and items
RECURSIVE ReachFrom(_, _)
ReachFrom(h, S) ==
  LET T == S \cup {b \in DOMAIN h : \E a \in S : \E i \in 1..Len(h[a].kids) : h[a].kids[i] = b}
  IN  IF T = S THEN S ELSE ReachFrom(h, T)

Reachable == ReachFrom(heap, {1})

\* The characters of a value, lower-cased
Lowered(v) == toLowerCase(toString(v))

\* An object node that names the excluded activity itself
NamesExcluded(a) ==
  /\ heap[a].kind = "object"
  /\ Truthy(OfferIdOf(heap[a]))
  /\ Lowered(OfferIdOf(heap[a])) = Lowered(excluded)

\* An object node that names an offer
NamesOffer(a) ==
  /\ heap[a].kind = "object"
  /\ Truthy(OfferIdOf(heap[a]))
  /\ Lowered(OfferIdOf(heap[a])) # Lowered(excluded)

RefIds == {references[i].id : i \in 1..Len(references)}

\* C3: no returned record has an id that equals the excluded activity id once
\* both are turned into lower-cased strings, wherever the node sits, and every
\* offer node that is reachable from the root, through excluded nodes as well,
\* is among the returned records
C3_Exclusion ==
  /\ \A i \in 1..Len(references) : Lowered(references[i].id) # Lowered(excluded)
  /\ spc = "done" =>
       \A a \in Reachable : NamesOffer(a) => OfferIdOf(heap[a]) \in RefIds

\* An excluded node whose raw id differs from the excluded id in case only or
\* in type only, with an offer nested inside it that was returned
C3_Witness ==
  /\ spc = "done"
  /\ \E a \in Reachable : \E i \in 1..Len(heap[a].kids) :
       LET b == heap[a].kids[i]
       IN  /\ NamesExcluded(a)
           /\ OfferIdOf(heap[a]) # excluded
           /\ b # Null
           /\ b # a
           /\ NamesOffer(b)
           /\ OfferIdOf(heap[b]) \in RefIds

\* The records of the result that carry raw id k
RecordsOf(k) == {i \in 1..Len(references) : references[i].id = k}

\* The reachable offer nodes that carry raw id k
NodesOf(k) == {a \in Reachable : NamesOffer(a) /\ OfferIdOf(heap[a]) = k}

C4_Result ==
  spc = "done" =>
    \A a \in Reachable : NamesOffer(a) =>
      LET k == OfferIdOf(heap[a])
      IN  /\ Cardinality(RecordsOf(k)) = 1
          /\ \A i \in RecordsOf(k) :
               references[i].type = sJson
                 <=> \E b \in NodesOf(k) : OfferTypeOf(heap[b]) = sJson

C4_Step ==
  \A i \in 1..Len(references) :
    /\ Len(references') >= Len(references)
    /\ references'[i].id = references[i].id
    /\ references[i].type = sJson => references'[i].type = sJson
    /\ references'[i].type # references[i].type => references'[i].type = sJson

\* C4: an id that occurs on several nodes gets exactly one record, of type
\* "json" exactly when one of the nodes has type "json" (given or by default),
\* in whatever order the nodes are met; a step of the search only ever turns a
\* record into a "json" one and never replaces a record otherwise
C4_Dedup == [](C4_Result) /\ [][C4_Step]_vars

\* Node 1 is met first with a non-"json" type, node 2 then carries the same id
\* with type "json", and the one record for the id is "json"
C4_Witness ==
  /\ spc = "done"
  /\ 2 \in Reachable
  /\ NamesOffer(1) /\ NamesOffer(2)
  /\ OfferIdOf(heap[1]) = OfferIdOf(heap[2])
  /\ OfferTypeOf(heap[1]) # sJson
  /\ OfferTypeOf(heap[2]) = sJson
  /\ \E i \in 1..Len(references) :
       references[i] = [id |-> OfferIdOf(heap[1]), type |-> sJson]

\* The composite nodes that lie on a cycle
OnCycle(a) ==
  a \in ReachFrom(heap, {heap[a].kids[i] : i \in 1..Len(heap[a].kids)} \ {Null})

\* C5: the search ends on every payload, cyclic and shared ones included; it
\* runs past its guard at most once on each composite node, and the result
\* never holds two records with the same id
C5_Terminates ==
  /\ (spc = "run") ~> (spc = "done")
  /\ [](\A a \in DOMAIN heap : entered[a] <= 1)
  /\ [](\A i, j \in 1..Len(references) :
          references[i].id = references[j].id => i = j)

\* The search has returned on a payload with a cycle of two nodes that both
\* name the same offer
C5_Witness ==
  /\ spc = "done"
  /\ \E a, b \in Reachable :
       /\ a # b
       /\ OnCycle(a) /\ b \in ReachFrom(heap, {a}) /\ a \in ReachFrom(heap, {b})
       /\ NamesOffer(a) /\ NamesOffer(b)
       /\ entered[a] = 1 /\ entered[b] = 1
       /\ Len(references) = 1

----------------------------------------------------------------------------
(* Properties of fetchAccessToken *)

\* C1: a call returns the cached token only when the cache held a token that
\* expired strictly after the time of the call; a call that found the cache
\* empty or its token expired went on to a token exchange
C1_NoExpiredToken ==
  \A c \in Callers :
    /\ callers[c].via = "cache" =>
         callers[c].seenFresh /\ callers[c].pc = "returned"
    /\ callers[c].via = "exchange" => ~callers[c].seenFresh
    /\ callers[c].pc # "idle" => callers[c].via # "none"

\* A call found a cached token that had expired and is awaiting an exchange,
\* while the clock stands exactly at the expiry of the cached token
C1_Witness ==
  \E c \in Callers :
    /\ callers[c].pc = "awaiting"
    /\ callers[c].seenSet
    /\ cachedToken.set
    /\ cachedToken.expiresAt = now

C10_State ==
  /\ cachedToken \in [value : 0..issued, expiresAt : Int, set : BOOLEAN]
  /\ \A c \in Callers :
       callers[c].pc = "returned" /\ callers[c].via = "exchange" =>
         callers[c].mine # 0 /\ callers[c].ret = callers[c].mine
  /\ (lastExchange # 0 /\ \A c \in Callers : callers[c].pc # "awaiting") =>
       cachedToken.set /\ cachedToken.value = lastExchange

C10_Step ==
  \A c \in Callers :
    /\ callers[c].pc = "awaiting" /\ callers'[c].pc = "failed" =>
         cachedToken' = cachedToken
    /\ callers[c].pc = "awaiting" /\ callers'[c].pc = "returned" =>
         /\ cachedToken'.value = callers'[c].mine
         /\ lastExchange' = callers'[c].mine

\* C10: callers that start while the cache is empty or expired each run their
\* own exchange; the cache is one token; a caller whose exchange succeeds
\* returns the token of its own exchange; when no exchange is pending the
\* cache holds the token of the exchange that completed last; a failed
\* exchange leaves the cache as it was
C10_Concurrent == [](C10_State) /\ [][C10_Step]_vars

\* Two callers whose exchanges overlapped have both returned, each with its
\* own token, and the cache holds the later one
C10_Witness ==
  \E c, o \in Callers :
    /\ c # o
    /\ callers[c].pc = "returned" /\ callers[c].via = "exchange"
    /\ callers[o].pc = "returned" /\ callers[o].via = "exchange"
    /\ callers[o].overlap
    /\ callers[c].mine # callers[o].mine
    /\ callers[c].ret < callers[o].ret
    /\ cachedToken.value = callers[o].ret

----------------------------------------------------------------------------
(* Properties of getJsonOffersFromActivity and getTravaTelasOffers *)

Pipelines == 1..Len(pipes)

Received(i) == pipes[i].details # NoDetails

\* The details of activity i carry a truthy lifetime.end or lifetime.endDate
Expired(i) ==
  /\ Received(i)
  /\ \/ Truthy(pipes[i].details.lifetime.end)
     \/ Truthy(pipes[i].details.lifetime.endDate)

RequestsFor(i) == {r \in offerRequests : r.activity = approved[i].id}

ResultsFor(i) == {k \in 1..Len(result) : result[k].activityId = approved[i].id}

\* C2: an activity whose details carry a truthy lifetime.end or
\* lifetime.endDate resolves with no offers, no getOfferDetails request is ever
\* issued for it, and in getTravaTelasOffers it adds nothing to the result and
\* is not what the call fails with
C2_LifetimeShortCircuit ==
  \A i \in Pipelines : Expired(i) =>
    /\ pipes[i].pc = "done"
    /\ pipes[i].offers = <<>>
    /\ RequestsFor(i) = {}
    /\ ResultsFor(i) = {}
    /\ error.activity # approved[i].id

\* The call has resolved with offers of another activity while an activity
\* whose payload holds offer references was expired through lifetime.endDate
C2_Witness ==
  /\ apc = "resolved"
  /\ Len(result) > 0
  /\ \E i \in Pipelines :
       /\ Expired(i)
       /\ ~Truthy(pipes[i].details.lifetime.end)
       /\ Len(pipes[i].details.heap) > 3

\* The references of pipeline i, in discovery order
Discovered(i) == findJsonOfferReferences(pipes[i].details.heap, approved[i].id)

\* What activity i is to contribute: one element per discovered reference, in
\* discovery order, each with the body of the offer of that reference
ExpectedFor(i) ==
  IF Expired(i) THEN <<>>
  ELSE [j \in 1..Len(Discovered(i)) |->
          [activityId |-> approved[i].id,
           activityName |-> approved[i].name,
           activityType |-> Lowered(approved[i].type),
           status |-> approved[i].state,
           offer |-> OfferBody(Discovered(i)[j].id)]]

\* The position of an activity in the listing
ListingPosition(id) == CHOOSE k \in 1..Len(listing) : listing[k].id = id

\* C6: whatever the order in which the detail and offer requests complete,
\* the result lists the activities in the order of the listing and, within an
\* activity, the offers in the order their references were discovered, each
\* element holding the body of the offer of its own activity and reference
C6_Order ==
  apc = "resolved" =>
    /\ result = Flat([i \in Pipelines |-> ExpectedFor(i)])
    /\ \A i, j \in Pipelines :
         i < j => ListingPosition(approved[i].id) < ListingPosition(approved[j].id)

\* Two activities contributed; the second resolved before the first, and the
\* second offer of an activity arrived before its first
C6_Witness ==
  /\ apc = "resolved"
  /\ Len(doneOrder) = 2 /\ doneOrder[1] = 2
  /\ Len(pipes[1].offers) > 0 /\ Len(pipes[2].offers) > 0
  /\ \E i \in Pipelines : Len(pipes[i].order) = 2 /\ pipes[i].order[1] = 2

\* Every node of the payload that carries an id names the activity itself
OnlyOwnIds(h, id) ==
  \A a \in DOMAIN h :
    (h[a].kind = "object" /\ Truthy(OfferIdOf(h[a]))) =>
      Lowered(OfferIdOf(h[a])) = Lowered(id)

\* C7: when the details of an activity that is not expired name nothing but
\* the activity itself, getJsonOffersFromActivity fails with the NotFoundError
\* and no getOfferDetails request is issued
C7_NotFound ==
  \A i \in Pipelines :
    (Received(i) /\ ~Expired(i) /\ OnlyOwnIds(pipes[i].details.heap, approved[i].id)) =>
      /\ pipes[i].pc = "failed"
      /\ pipes[i].err = [kind |-> "NotFoundError", activity |-> approved[i].id]
      /\ RequestsFor(i) = {}

\* Such an activity, one of its nodes naming it in another case, has failed
\* and the call was rejected with its error
C7_Witness ==
  \E i \in Pipelines :
    /\ Received(i) /\ ~Expired(i)
    /\ OnlyOwnIds(pipes[i].details.heap, approved[i].id)
    /\ \E a \in DOMAIN pipes[i].details.heap :
         /\ Truthy(pipes[i].details.heap[a].id)
         /\ pipes[i].details.heap[a].id # approved[i].id
    /\ apc = "rejected"
    /\ error = pipes[i].err

\* The end-to-end scenario: one listed activity a1, its details with a nested
\* {offerId: "o1", offerType: "json"}, and the call has resolved
EndToEndName == TRAVA_TELAS_IDENTIFIER \o <<" ", "X">>

EndToEnd ==
  /\ apc = "resolved"
  /\ listing = <<[id |-> ActivityId(1), name |-> EndToEndName,
                  state |-> Str(sApproved), type |-> Str(sAb)]>>
  /\ Len(pipes) = 1
  /\ pipes[1].details.lifetime = [end |-> Undef, endDate |-> Undef]
  /\ Len(pipes[1].details.heap) = 3
  /\ pipes[1].details.heap[3] = Leaf(Str(sO1), Undef, Str(sJson), Undef)

\* C8 as stated: the one element carries activityId "a1", offerId "o1" and
\* offer {"html": "<div/>"}
C8_AsStated ==
  EndToEnd =>
    /\ Len(result) = 1
    /\ result[1].activityId = ActivityId(1)
    /\ "offerId" \in DOMAIN result[1]
    /\ result[1].offerId = Str(sO1)
    /\ result[1].offer = [html |-> "<div/>"]

\* C8 amended: the one element carries activityId "a1", the activity's name,
\* type and state and offer {"html": "<div/>"}, and no offerId; offerId "o1"
\* is on the element getJsonOffersFromActivity resolved with
C8_EndToEnd ==
  EndToEnd =>
    /\ Len(result) = 1
    /\ result[1] = [activityId |-> ActivityId(1),
                    activityName |-> EndToEndName,
                    activityType |-> sAb,
                    status |-> Str(sApproved),
                    offer |-> [html |-> "<div/>"]]
    /\ "offerId" \notin DOMAIN result[1]
    /\ Len(pipes[1].offers) = 1
    /\ pipes[1].offers[1].offerId = Str(sO1)

C8_Witness == EndToEnd /\ Len(result) = 1

C9_State ==
  /\ (\E i \in Pipelines : pipes[i].pc = "failed") =>
       /\ apc = "rejected"
       /\ result = <<>>
       /\ \E i \in Pipelines : pipes[i].pc = "failed" /\ error = pipes[i].err
  /\ apc = "resolved" =>
       \A i \in Pipelines :
         /\ pipes[i].pc = "done"
         /\ Cardinality(ResultsFor(i)) = Len(pipes[i].offers)
         /\ pipes[i].offers = <<>> => Expired(i)

C9_Step ==
  /\ apc = "rejected" => apc' = "rejected" /\ error' = error /\ result' = result
  /\ \A i \in Pipelines :
       (apc = "running" /\ pipes[i].pc # "failed" /\ pipes'[i].pc = "failed") =>
         apc' = "rejected" /\ error' = pipes'[i].err

\* C9: when the pipeline of an approved activity fails, the call fails with
\* the error of the pipeline that failed first and returns nothing of what the
\* other activities gathered; a call that resolves has every pipeline
\* resolved, and only an expired activity contributes no offer
C9_Errors == [](C9_State) /\ [][C9_Step]_vars

\* One activity has gathered its offers, another has failed, and the call is
\* rejected with the error of the failed one and no result
C9_Witness ==
  /\ apc = "rejected"
  /\ result = <<>>
  /\ \E i, j \in Pipelines :
       /\ pipes[i].pc = "done" /\ Len(pipes[i].offers) > 0
       /\ pipes[j].pc = "failed" /\ error = pipes[j].err
       /\ error.kind = "ApiError"

====
